---- MODULE Spec2Model ----
(***************************************************************************)
(* KZG polynomial commitments (VGLoic/kzg-poly-commit-exploration).        *)
(*                                                                         *)
(* The model follows the sources:                                          *)
(*   src/src/trusted_setup.rs  SetupArtifactsGenerator (new, next)         *)
(*   src/src/polynomial.rs     Polynomial over i128 with checked           *)
(*                             arithmetic, Evaluation::verify_proof        *)
(*   src/src/curves.rs         G1Point / G2Point / bilinear_map            *)
(*   src/src/scalar.rs         Scalar (bytes, From<i128>, pow, Display)    *)
(*                                                                         *)
(* Scaling.  i128 is modelled as the integer interval IMin..IMax and the   *)
(* scalar-field order r as the least prime above (IMax+1)^2, which keeps   *)
(* the relation r > 2^254 = (i128::MAX+1)^2 of the real constants.  The    *)
(* groups G1 and G2 have prime order r; a point k*G is modelled by its     *)
(* discrete logarithm k in 0..R-1 and the pairing e(a*G1, b*G2) by the     *)
(* exponent a*b mod R of the target-group generator.                       *)
(***************************************************************************)
EXTENDS Integers, Sequences, FiniteSets, TLC

\* ------------------------------------------------------------------ bounds
\* i128::MAX, scaled.
IMax == 7
\* Largest polynomial degree drawn as an input.
MaxDegree == 2

IMin == -IMax - 1
I128 == IMin..IMax
InI128(n) == n >= IMin /\ n <= IMax

IsPrime(n) == n > 1 /\ \A d \in 2..(n - 1) : n % d # 0
\* scalar.rs: R_AS_HEX, the order of the scalar field and of G1, G2.
R == CHOOSE p \in ((IMax + 1) * (IMax + 1) + 1)..(2 * (IMax + 1) * (IMax + 1)) :
        IsPrime(p) /\ \A q \in ((IMax + 1) * (IMax + 1) + 1)..(p - 1) : ~IsPrime(q)

\* The longest SRS taken from a generator (the caller's .take(n)).
MaxSrs == MaxDegree + 2

Abs(n) == IF n < 0 THEN -n ELSE n
Mod(n) == n % R

RECURSIVE Pow(_, _)
Pow(b, e) == IF e = 0 THEN 1 ELSE b * Pow(b, e - 1)

\* ------------------------------------------------------ results of handlers
Ok(v) == [kind |-> "ok", val |-> v]
Err(e) == [kind |-> "err", val |-> e]
\* A Rust panic (slice index out of bounds): the call returns nothing.
Panic(e) == [kind |-> "panic", val |-> e]
None == [kind |-> "none", val |-> "none"]
IsOk(r) == r.kind = "ok"
IsErr(r) == r.kind = "err"

\* ---------------------------------------------------------------- scalar.rs
\* blst_fr_sub(r, fr) on canonical residues.
FrSub(a, b) == Mod(a - b + R)

ScalarFromAbs(value) == Mod(Abs(value))

\* impl From<i128> for Scalar: |value| as a field element, r - |value| unless
\* value > 0 (blst_fr holds the canonical residue, so r - 0 is 0).
ScalarFromI128(value) ==
    IF value > 0 THEN Mod(Abs(value)) ELSE FrSub(Mod(R), Mod(Abs(value)))

\* The length of a scalar buffer, [u8; 32] scaled: the lower half of the
\* buffer holds an unsigned_abs of i128 and the whole buffer holds
\* 4 * (i128::MAX + 1)^2 values, as 2^256 does.
ScalarBytes == 2
ByteBase == 2 * (IMax + 1)
Bytes == 0..(ByteBase - 1)
Buffers == [1..ScalarBytes -> Bytes]

Reverse(s) == [i \in 1..Len(s) |-> s[Len(s) + 1 - i]]

\* le_bytes_to_hex, be_bytes_to_hex: the digits of the buffer, most
\* significant first (a byte's two hex characters are kept as one digit of
\* base ByteBase).
le_bytes_to_hex(a) == Reverse(a)
be_bytes_to_hex(a) == a

\* The number a most-significant-first digit string writes.
RECURSIVE HexValue(_)
HexValue(hex) ==
    IF hex = <<>> THEN 0
    ELSE HexValue(SubSeq(hex, 1, Len(hex) - 1)) * ByteBase + hex[Len(hex)]

\* blst_fr_from_hexascii: the digits read as a number, brought into the field
\* (the Montgomery multiplication by RR reduces it below r).
blst_fr_from_hexascii(hex) == Mod(HexValue(hex))

\* Scalar::from_le_bytes, Scalar::from_be_bytes.
from_le_bytes(b) == blst_fr_from_hexascii(le_bytes_to_hex(b))
from_be_bytes(b) == blst_fr_from_hexascii(be_bytes_to_hex(b))

\* Scalar::to_le_bytes: blst_scalar_from_fr, then blst_lendian_from_scalar.
to_le_bytes(s) ==
    [i \in 1..ScalarBytes |-> (s \div Pow(ByteBase, i - 1)) % ByteBase]

ToBeBytesLowFirst(s) ==
    [i \in 1..ScalarBytes |-> (s \div Pow(ByteBase, i - 1)) % ByteBase]

\* Scalar::to_be_bytes: blst_scalar_from_fr, then blst_bendian_from_scalar.
to_be_bytes(s) ==
    [i \in 1..ScalarBytes |-> (s \div Pow(ByteBase, ScalarBytes - i)) % ByteBase]

\* Scalar::mul (blst_fr_mul).
mul(a, b) == Mod(a * b)

\* Scalar::is_zero: the field element against blst_fr::default(), the
\* representation of zero.
is_zero(s) == s = 0

\* The first loop of Scalar::pow: self^2, self^4, ... up to the largest power
\* of two not above target_factor.
RECURSIVE PowSquares(_, _, _, _)
PowSquares(self, target_factor, current_power_of_two, powered_scalars) ==
    IF current_power_of_two * 2 <= target_factor
    THEN LET last_scalar ==
                 IF powered_scalars = <<>> THEN self
                 ELSE powered_scalars[Len(powered_scalars)]
         IN  PowSquares(self, target_factor, current_power_of_two * 2,
                        Append(powered_scalars, mul(last_scalar, last_scalar)))
    ELSE powered_scalars

\* The second loop of Scalar::pow; powered_scalars[len - 1] panics on the
\* empty vector, pop on it does nothing.
RECURSIVE PowCombine(_, _, _, _, _)
PowCombine(target_factor, self_powered_by_target_factor, self_power_tracker, available_power, powered_scalars) ==
    IF self_power_tracker = target_factor
    THEN Ok(self_powered_by_target_factor)
    ELSE LET fits == self_power_tracker + available_power <= target_factor
             popped == IF powered_scalars = <<>> THEN powered_scalars
                       ELSE SubSeq(powered_scalars, 1, Len(powered_scalars) - 1)
         IN  IF fits /\ powered_scalars = <<>> THEN Panic("IndexOutOfBounds")
             ELSE PowCombine(
                      target_factor,
                      IF fits
                      THEN mul(self_powered_by_target_factor,
                               powered_scalars[Len(powered_scalars)])
                      ELSE self_powered_by_target_factor,
                      IF fits THEN self_power_tracker + available_power
                      ELSE self_power_tracker,
                      available_power \div 2,
                      popped)

\* self^target_factor, as the two loops of Scalar::pow compute it.
PowTarget(self, target_factor) ==
    LET powered_scalars == PowSquares(self, target_factor, 1, <<>>)
    IN  PowCombine(target_factor,
                   IF target_factor % 2 = 0 THEN ScalarFromI128(1) ELSE self,
                   IF target_factor % 2 = 0 THEN 0 ELSE 1,
                   Pow(2, Len(powered_scalars)),
                   powered_scalars)

PowDropsOddFactor(self, n) ==
    IF n = 0 THEN Ok(ScalarFromI128(1))
    ELSE IF n = 1 THEN Ok(self)
    ELSE LET half == PowTarget(self, n \div 2)
         IN  IF ~IsOk(half) THEN half ELSE Ok(mul(half.val, half.val))

\* Scalar::pow.
pow(self, n) ==
    IF n = 0 THEN Ok(ScalarFromI128(1))
    ELSE IF n = 1 THEN Ok(self)
    ELSE LET target_factor == n \div 2
             half == PowTarget(self, target_factor)
         IN  IF ~IsOk(half) THEN half
             ELSE IF target_factor * 2 = n THEN Ok(mul(half.val, half.val))
             ELSE Ok(mul(mul(half.val, half.val), self))

\* le_bytes_to_base_10_string: one pass of the inner loop over the bytes from
\* the most significant one, dividing the number by ten; the pair of the
\* updated bytes and the remainder.
RECURSIVE DivideByTen(_, _, _)
DivideByTen(quotient, i, next_digit) ==
    IF i < 1 THEN <<quotient, next_digit>>
    ELSE LET to_be_divided == next_digit * ByteBase + quotient[i]
         IN  DivideByTen([quotient EXCEPT ![i] = to_be_divided \div 10],
                         i - 1, to_be_divided % 10)

\* The outer loop: while some byte is not zero, push the next digit; the
\* digits are reversed at the end.
RECURSIVE DigitsOf(_, _)
DigitsOf(quotient, digits) ==
    IF \A i \in 1..Len(quotient) : quotient[i] = 0 THEN digits
    ELSE LET pass == DivideByTen(quotient, Len(quotient), 0)
         IN  DigitsOf(pass[1], <<pass[2]>> \o digits)

le_bytes_to_base_10_string(le_bytes) == Ok(DigitsOf(le_bytes, <<>>))

\* impl Display for Scalar: the string written, a sequence of decimal digits.
fmt(s) == le_bytes_to_base_10_string(to_le_bytes(s)).val

\* ---------------------------------------------------------------- curves.rs
\* blst_p1_cneg / blst_p2_cneg with the flag set: the opposite point.
PointNeg(p) == Mod(R - p)

\* blst_p1_add_or_double / blst_p2_add_or_double.
PointAdd(a, b) == Mod(a + b)

\* blst_p1_mult / blst_p2_mult: k * P for a scalar k given as bytes.
PointMult(p, k) == Mod(p * Mod(k))

\* blst_scalar_from_i128_as_abs: |a| as a 256-bit scalar.
blst_scalar_from_i128_as_abs(a) == Mod(Abs(a))

G1FromI128NoNeg(a) == PointMult(1, blst_scalar_from_i128_as_abs(a))

\* G1Point::from_i128: |a| * G1, negated when a < 0.
G1Point_from_i128(a) ==
    LET out == PointMult(1, blst_scalar_from_i128_as_abs(a))
    IN  IF a < 0 THEN PointNeg(out) ELSE out

\* G2Point::from_i128.
G2Point_from_i128(a) ==
    LET out == PointMult(1, blst_scalar_from_i128_as_abs(a))
    IN  IF a < 0 THEN PointNeg(out) ELSE out

G1FromScalarHighFirst(a) == PointMult(1, HexValue(to_le_bytes(a)))

\* G1Point::from_scalar, G2Point::from_scalar: the generator multiplied by
\* the number the little-endian bytes of the Scalar write.
G1Point_from_scalar(a) == PointMult(1, HexValue(Reverse(to_le_bytes(a))))
G2Point_from_scalar(a) == PointMult(1, HexValue(Reverse(to_le_bytes(a))))

\* G1Point::sub, G2Point::sub: self + (-b).
G1Point_sub(a, b) == PointAdd(a, PointNeg(b))
G2Point_sub(a, b) == PointAdd(a, PointNeg(b))

\* G1Point::add.
G1Point_add(a, b) == PointAdd(a, b)

\* G1Point::mult, applied to a coefficient through Scalar::from.
G1Point_mult(p, a) == PointMult(p, ScalarFromI128(a))

\* bilinear_map: e(a*G1, b*G2) = gT^(a*b).
bilinear_map(p1, p2) == Mod(p1 * p2)

\* ------------------------------------------------------------ polynomial.rs
\* Error messages of polynomial.rs, by kind.
Overflow == "Overflow"
InsufficientSrs == "InsufficientSrs"
DivisionMismatch == "DivisionMismatch"
UndividablePolynomial == "UndividablePolynomial"
IndexOutOfBounds == "IndexOutOfBounds"

\* The while-let loop of try_from: pop while the last coefficient is 0.
RECURSIVE Strip(_)
Strip(c) ==
    IF c = <<>> THEN c
    ELSE IF c[Len(c)] = 0 THEN Strip(SubSeq(c, 1, Len(c) - 1))
    ELSE c

\* impl TryFrom<&[i128]> for Polynomial.  The length test against u32::MAX
\* cannot fire on the sequences of this model and is left out.
try_from(value) == Ok(Strip(value))

\* Polynomial::degree.
degree(c) == IF c = <<>> THEN 0 ELSE Len(c) - 1

\* Polynomial::from_constant: the coefficient is kept as given, zero included.
from_constant(a) == <<a>>

Evaluation(x, y) == [point |-> x, result |-> y]

\* The loop of Polynomial::evaluate from coefficient i (1-based) on:
\* checked_pow, checked_mul, checked_add, each returning at the first overflow.
RECURSIVE EvaluateFrom(_, _, _, _)
EvaluateFrom(c, x, i, acc) ==
    IF i > Len(c) THEN Ok(Evaluation(x, acc))
    ELSE LET x_powered == Pow(x, i - 1)
             contribution == c[i] * x_powered
         IN  IF ~InI128(x_powered) THEN Err(Overflow)
             ELSE IF ~InI128(contribution) THEN Err(Overflow)
             ELSE IF ~InI128(acc + contribution) THEN Err(Overflow)
             ELSE EvaluateFrom(c, x, i + 1, acc + contribution)

\* Polynomial::evaluate.
evaluate(c, x) == EvaluateFrom(c, x, 1, 0)

\* Polynomial::sub, self = a, p = b.
sub(a, b) ==
    IF Len(a) > Len(b)
    THEN IF \E i \in 1..Len(b) : ~InI128(a[i] - b[i])
         THEN Err(Overflow)
         ELSE try_from([i \in 1..Len(a) |->
                            IF i <= Len(b) THEN a[i] - b[i] ELSE a[i]])
    ELSE IF \E i \in 1..Len(b) : ~InI128(-b[i])
         THEN Err(Overflow)
         ELSE IF \E i \in 1..Len(a) : ~InI128(a[i] + (-b[i]))
         THEN Err(Overflow)
         ELSE try_from([i \in 1..Len(b) |->
                            IF i <= Len(a) THEN a[i] + (-b[i]) ELSE -b[i]])

\* The loop of divide_by_root, i running down over the 0-based indices
\* len-2 .. 1 of the dividend; q is the quotient found so far, ascending.
RECURSIVE DivideLoop(_, _, _, _, _)
DivideLoop(c, root, i, last_coefficient_found, q) ==
    IF i < 1 THEN Ok(q)
    ELSE LET contribution_from_root == root * last_coefficient_found
             found == c[i + 1] + contribution_from_root
         IN  IF ~InI128(contribution_from_root) THEN Err(Overflow)
             ELSE IF ~InI128(found) THEN Err(Overflow)
             ELSE DivideLoop(c, root, i - 1, found, <<found>> \o q)

\* The constant-term check of divide_by_root on the quotient q.
ConstantTermCheck(c, root, q) ==
    IF ~InI128(root * q[1]) THEN Err(Overflow)
    ELSE IF ~InI128(-(root * q[1])) THEN Err(Overflow)
    ELSE IF -(root * q[1]) # c[1] THEN Err(DivisionMismatch)
    ELSE try_from(q)

DivideStripsLeading(c, root) ==
    IF c = <<>> THEN Ok(<<>>)
    ELSE IF Len(c) = 1
    THEN IF c[1] = 0 THEN Ok(<<>>) ELSE Err(UndividablePolynomial)
    ELSE LET r == DivideLoop(c, root, Len(c) - 2, c[Len(c)], <<c[Len(c)]>>)
             checked == IF IsErr(r) THEN r ELSE ConstantTermCheck(c, root, r.val)
         IN  IF IsOk(checked)
             THEN Ok(Strip(SubSeq(checked.val, 1, Len(checked.val) - 1)))
             ELSE checked

DivideConstantAsZero(c, root) ==
    IF Len(c) <= 1 THEN Ok(<<>>)
    ELSE LET r == DivideLoop(c, root, Len(c) - 2, c[Len(c)], <<c[Len(c)]>>)
         IN  IF IsErr(r) THEN r ELSE ConstantTermCheck(c, root, r.val)

\* Polynomial::divide_by_root.
divide_by_root(c, root) ==
    IF c = <<>> THEN Ok(<<>>)
    ELSE IF Len(c) = 1
    THEN IF c[1] = 0 THEN Ok(<<>>) ELSE Err(UndividablePolynomial)
    ELSE LET r == DivideLoop(c, root, Len(c) - 2, c[Len(c)], <<c[Len(c)]>>)
         IN  IF IsErr(r) THEN r ELSE ConstantTermCheck(c, root, r.val)

\* The loop of Polynomial::commit from coefficient i (1-based) on;
\* setup_artifacts[i] panics when the index is out of range.
RECURSIVE CommitFrom(_, _, _, _)
CommitFrom(c, setup_artifacts, i, acc) ==
    IF i > Len(c) THEN Ok(acc)
    ELSE IF i > Len(setup_artifacts) THEN Panic(IndexOutOfBounds)
    ELSE CommitFrom(c, setup_artifacts, i + 1,
                    G1Point_add(acc, G1Point_mult(setup_artifacts[i].g1, c[i])))

CommitFromGenerator(c, setup_artifacts) ==
    IF degree(c) + 1 > Len(setup_artifacts) THEN Err(InsufficientSrs)
    ELSE CommitFrom(c, setup_artifacts, 1, G1Point_from_i128(1))

CommitDegreeOnly(c, setup_artifacts) ==
    IF degree(c) > Len(setup_artifacts) THEN Err(InsufficientSrs)
    ELSE CommitFrom(c, setup_artifacts, 1, G1Point_from_i128(0))

RECURSIVE CommitFromG2(_, _, _, _)
CommitFromG2(c, setup_artifacts, i, acc) ==
    IF i > Len(c) THEN Ok(acc)
    ELSE IF i > Len(setup_artifacts) THEN Panic(IndexOutOfBounds)
    ELSE CommitFromG2(c, setup_artifacts, i + 1,
                      G1Point_add(acc, G1Point_mult(setup_artifacts[i].g2, c[i])))

CommitOverG2(c, setup_artifacts) ==
    IF degree(c) + 1 > Len(setup_artifacts) THEN Err(InsufficientSrs)
    ELSE CommitFromG2(c, setup_artifacts, 1, G1Point_from_i128(0))

\* Polynomial::commit.
commit(c, setup_artifacts) ==
    IF degree(c) + 1 > Len(setup_artifacts) THEN Err(InsufficientSrs)
    ELSE CommitFrom(c, setup_artifacts, 1, G1Point_from_i128(0))

\* Polynomial::generate_evaluation_proof.
generate_evaluation_proof(c, ev, setup_artifacts) ==
    LET s == sub(c, from_constant(ev.result))
    IN  IF ~IsOk(s) THEN s
        ELSE LET d == divide_by_root(s.val, ev.point)
             IN  IF ~IsOk(d) THEN d ELSE commit(d.val, setup_artifacts)

\* Evaluation::verify_proof; setup_artifacts[1] is read without a length test.
verify_proof(ev, prf, com, setup_artifacts) ==
    IF Len(setup_artifacts) < 2 THEN Panic(IndexOutOfBounds)
    ELSE LET lhs == bilinear_map(prf,
                        G2Point_sub(setup_artifacts[2].g2,
                                    G2Point_from_i128(ev.point)))
             rhs == bilinear_map(G1Point_sub(com, G1Point_from_i128(ev.result)),
                                 G2Point_from_i128(1))
         IN  Ok(lhs = rhs)

\* --------------------------------------------------------- trusted_setup.rs
Generators == 1..2

\* Secrets given to SetupArtifactsGenerator::new: any 48-byte big-endian
\* number, in particular numbers at and above the field order.
Secrets == {0, 1, 2, 3, R - 1, R, R + 1, R + 2}

\* SetupArtifactsGenerator::new.
new(s) == [secret |-> s, is_at_power_zero |-> TRUE, current_s_powered |-> 1]

\* blst_scalar_from_be_bytes of a big-endian number of any length: the
\* number reduced modulo r.
blst_scalar_from_be_bytes(n) == Mod(n)

SetupArtifact(a, b) == [g1 |-> a, g2 |-> b]

VARIABLES
    gens,       \* the generators' fields
    outs,       \* the artifacts each generator has returned, in order
    made,       \* the secret each generator was constructed from
    pc,         \* position in the commit / open / verify sequence
    polynomial, \* Polynomial.coefficients
    commitment, \* result of Polynomial::commit
    evaluation, \* result of Polynomial::evaluate (an Evaluation)
    genuine,    \* the Evaluation as evaluate returned it, before any change
    proof,      \* result of Polynomial::generate_evaluation_proof
    opened,     \* the Evaluation given to generate_evaluation_proof
    verdict,    \* result of Evaluation::verify_proof
    other,      \* root of divide_by_root / the polynomial added
    summand,    \* result of commit on the polynomial added
    derived,    \* result of divide_by_root / commit of the sum
    scalar_from, \* the call that made the Scalar at hand, with its argument
    scalar,     \* the Scalar at hand
    le_bytes,   \* result of to_le_bytes on it
    be_bytes,   \* result of to_be_bytes on it
    zero,       \* result of is_zero on it
    shown,      \* what Display writes for it
    point,      \* the last group point made from an integer or a Scalar
    pw,         \* the locals of a running Scalar::pow
    decoded,    \* the last value deserialized, with its input
    fs,         \* the files under ./artifacts
    cli         \* the last command run with its exit, and those that succeeded before

vars == <<gens, outs, made, pc, polynomial, commitment, evaluation, genuine,
          proof, opened, verdict, other, summand, derived,
          scalar_from, scalar, le_bytes, be_bytes, zero, shown,
          point, pw, decoded, fs, cli>>

moreVars == <<point, pw, decoded, fs, cli>>

scalarVars == <<scalar_from, scalar, le_bytes, be_bytes, zero, shown>>

protoVars == <<pc, polynomial, commitment, evaluation, genuine, proof,
               opened, verdict, other, summand, derived>>

NextStateSkipsOne(g) ==
    IF g.is_at_power_zero
    THEN [g EXCEPT !.is_at_power_zero = FALSE, !.current_s_powered = g.secret]
    ELSE [g EXCEPT !.current_s_powered = g.current_s_powered * g.secret]

NextStateSquares(g) ==
    IF g.is_at_power_zero
    THEN [g EXCEPT !.is_at_power_zero = FALSE]
    ELSE [g EXCEPT !.current_s_powered =
                        g.current_s_powered * g.current_s_powered]

\* The state of a generator after next(), and the item it returns.
NextState(g) ==
    IF g.is_at_power_zero
    THEN [g EXCEPT !.is_at_power_zero = FALSE]
    ELSE [g EXCEPT !.current_s_powered = g.current_s_powered * g.secret]

NextItemStale(g) ==
    IF g.is_at_power_zero
    THEN SetupArtifact(1, 1)
    ELSE LET k == blst_scalar_from_be_bytes(g.current_s_powered)
         IN  SetupArtifact(PointMult(1, k), PointMult(1, k))

NextItem(g) ==
    IF g.is_at_power_zero
    THEN SetupArtifact(1, 1)
    ELSE LET k == blst_scalar_from_be_bytes(NextState(g).current_s_powered)
         IN  SetupArtifact(PointMult(1, k), PointMult(1, k))

NextOnSharedCursor(i) ==
    /\ Len(outs[i]) < MaxSrs
    /\ gens' = [j \in Generators |->
                   [NextState(gens[i]) EXCEPT !.secret = gens[j].secret]]
    /\ outs' = [outs EXCEPT ![i] = Append(outs[i], NextItem(gens[i]))]
    /\ UNCHANGED <<made, protoVars, scalarVars, moreVars>>

\* Iterator::next on generator i; next never returns None.
next(i) ==
    /\ Len(outs[i]) < MaxSrs
    /\ gens' = [gens EXCEPT ![i] = NextState(gens[i])]
    /\ outs' = [outs EXCEPT ![i] = Append(outs[i], NextItem(gens[i]))]
    /\ UNCHANGED <<made, protoVars, scalarVars, moreVars>>

ProtoIdle ==
    /\ pc = "setup"
    /\ polynomial = <<>>
    /\ commitment = None
    /\ evaluation = None
    /\ genuine = None
    /\ proof = None
    /\ opened = None
    /\ verdict = None
    /\ other = None
    /\ summand = None
    /\ derived = None

Source(op, arg) == [op |-> op, arg |-> arg]

ScalarIdle ==
    /\ scalar_from = Source("none", 0)
    /\ scalar = None
    /\ le_bytes = None
    /\ be_bytes = None
    /\ zero = None
    /\ shown = None

\* The paths of main.rs.
SETUP_ARTIFACTS_FOLDER_PATH == "./artifacts/setup.json"
COMMITMENT_ARTIFACTS_FOLDER_PATH == "./artifacts/commitment.json"
ArtifactPaths == {SETUP_ARTIFACTS_FOLDER_PATH, COMMITMENT_ARTIFACTS_FOLDER_PATH}

\* A file: absent, created and still empty, holding a proper prefix of a
\* document (all of its elements but the last), or the whole document.
Absent == [exists |-> FALSE, complete |-> FALSE, holds |-> "nothing", text |-> <<>>]
Holding(complete, holds, text) == [exists |-> TRUE, complete |-> complete, holds |-> holds, text |-> text]

\* No folder, no file, and no command run yet.
NoFiles == [dir |-> FALSE, files |-> [path \in ArtifactPaths |-> Absent]]
NoRuns == [command |-> "none", exit |-> None, read |-> {}, before |-> {}]

\* A value returned by the call op on arg.
Made(op, arg, val) == [op |-> op, arg |-> arg, val |-> val]

MoreIdle ==
    /\ point = Made("none", 0, 0)
    /\ pw = [pc |-> "idle"]
    /\ decoded = Made("none", <<>>, None)
    /\ fs = NoFiles
    /\ cli = NoRuns

InitGen ==
    /\ made \in [Generators -> Secrets]
    /\ gens = [i \in Generators |-> new(made[i])]
    /\ outs = [i \in Generators |-> <<>>]
    /\ ProtoIdle
    /\ ScalarIdle
    /\ MoreIdle

NextGen == \E i \in Generators : next(i)

\* Two generators, called in any order.
SpecGen == InitGen /\ [][NextGen]_vars

\* ------------------------------------------------------- scalars (scalar.rs)
\* Largest exponent given to Scalar::pow.
MaxExponent == 21

\* A Scalar newly made: nothing has been read from it yet.
Fresh(source, s) ==
    /\ scalar_from' = source
    /\ scalar' = s
    /\ le_bytes' = None
    /\ be_bytes' = None
    /\ zero' = None
    /\ shown' = None
    /\ UNCHANGED <<moreVars, gens, outs, made, protoVars>>

\* Scalar::from_le_bytes(b)
FromLeBytes(b) ==
    /\ scalar_from.op = "none"
    /\ Fresh(Source("from_le_bytes", b), Ok(from_le_bytes(b)))

\* Scalar::from_be_bytes(b)
FromBeBytes(b) ==
    /\ scalar_from.op = "none"
    /\ Fresh(Source("from_be_bytes", b), Ok(from_be_bytes(b)))

\* Scalar::from_i128(a), Scalar::from(a)
FromI128(a) ==
    /\ scalar_from.op = "none"
    /\ Fresh(Source("from_i128", a), Ok(ScalarFromI128(a)))

\* scalar.pow(n)
ScalarPow(n) ==
    /\ scalar_from.op \in {"from_le_bytes", "from_i128"}
    /\ IsOk(scalar)
    /\ Fresh(Source("pow", [base |-> scalar.val, n |-> n]), pow(scalar.val, n))

\* scalar.to_le_bytes()
ToLeBytes ==
    /\ IsOk(scalar)
    /\ le_bytes = None
    /\ le_bytes' = Ok(to_le_bytes(scalar.val))
    /\ UNCHANGED <<moreVars, gens, outs, made, protoVars, scalar_from, scalar, be_bytes,
                   zero, shown>>

\* scalar.to_be_bytes()
ToBeBytes ==
    /\ IsOk(scalar)
    /\ be_bytes = None
    /\ be_bytes' = Ok(to_be_bytes(scalar.val))
    /\ UNCHANGED <<moreVars, gens, outs, made, protoVars, scalar_from, scalar, le_bytes,
                   zero, shown>>

\* scalar.is_zero()
IsZero ==
    /\ IsOk(scalar)
    /\ zero = None
    /\ zero' = Ok(is_zero(scalar.val))
    /\ UNCHANGED <<moreVars, gens, outs, made, protoVars, scalar_from, scalar, le_bytes,
                   be_bytes, shown>>

\* format!("{}", scalar)
Display ==
    /\ IsOk(scalar)
    /\ shown = None
    /\ shown' = Ok(fmt(scalar.val))
    /\ UNCHANGED <<moreVars, gens, outs, made, protoVars, scalar_from, scalar, le_bytes,
                   be_bytes, zero>>

InitScalar ==
    /\ made = [i \in Generators |-> 0]
    /\ gens = [i \in Generators |-> new(made[i])]
    /\ outs = [i \in Generators |-> <<>>]
    /\ ProtoIdle
    /\ ScalarIdle
    /\ MoreIdle

NextScalar ==
    \/ \E b \in Buffers : FromLeBytes(b)
    \/ \E b \in Buffers : FromBeBytes(b)
    \/ \E a \in I128 : FromI128(a)
    \/ \E n \in 0..MaxExponent : ScalarPow(n)
    \/ ToLeBytes
    \/ ToBeBytes
    \/ IsZero
    \/ Display

\* Scalars made from bytes, integers and powers, then read.
SpecScalar == InitScalar /\ [][NextScalar]_vars

\* ------------------------------------------------- Scalar::pow, step by step
\* The locals of Scalar::pow.
PowLocals(position, self, n, powered, current, acc, tracker, available, result) ==
    [pc |-> position, self |-> self, n |-> n, target_factor |-> n \div 2,
     powered_scalars |-> powered, current_power_of_two |-> current,
     self_powered_by_target_factor |-> acc, self_power_tracker |-> tracker,
     available_power |-> available, result |-> result]

\* self.pow(n) is entered: the two early returns, or the first loop begins.
PowCall(self, n) ==
    /\ pw.pc = "idle"
    /\ pw' = IF n = 0
             THEN PowLocals("done", self, n, <<>>, 0, 0, 0, 0, ScalarFromI128(1))
             ELSE IF n = 1
             THEN PowLocals("done", self, n, <<>>, 0, 0, 0, 0, self)
             ELSE PowLocals("squares", self, n, <<>>, 1, 0, 0, 0, 0)
    /\ UNCHANGED <<gens, outs, made, protoVars, scalarVars, point, decoded, fs, cli>>

PowSquareStepLate ==
    /\ pw.pc = "squares"
    /\ pw' = IF pw.current_power_of_two <= pw.target_factor
             THEN [pw EXCEPT
                      !.powered_scalars =
                          Append(@, LET last_scalar ==
                                        IF @ = <<>> THEN pw.self ELSE @[Len(@)]
                                    IN  mul(last_scalar, last_scalar)),
                      !.current_power_of_two = @ * 2]
             ELSE [pw EXCEPT
                      !.pc = "combine",
                      !.self_powered_by_target_factor =
                          IF pw.target_factor % 2 = 0 THEN ScalarFromI128(1)
                          ELSE pw.self,
                      !.self_power_tracker =
                          IF pw.target_factor % 2 = 0 THEN 0 ELSE 1,
                      !.available_power = Pow(2, Len(pw.powered_scalars))]
    /\ UNCHANGED <<gens, outs, made, protoVars, scalarVars, point, decoded, fs, cli>>

\* One test of the first while loop: a square is pushed and the counter
\* doubled (a product above usize::MAX, scaled to MaxExponent, is an
\* arithmetic overflow), or the
\* loop ends and the second loop is set up.
PowSquareStep ==
    /\ pw.pc = "squares"
    /\ pw' = IF pw.current_power_of_two * 2 > MaxExponent
             THEN [pw EXCEPT !.pc = "overflow"]
             ELSE IF pw.current_power_of_two * 2 <= pw.target_factor
             THEN [pw EXCEPT
                      !.powered_scalars =
                          Append(@, LET last_scalar ==
                                        IF @ = <<>> THEN pw.self ELSE @[Len(@)]
                                    IN  mul(last_scalar, last_scalar)),
                      !.current_power_of_two = @ * 2]
             ELSE [pw EXCEPT
                      !.pc = "combine",
                      !.self_powered_by_target_factor =
                          IF pw.target_factor % 2 = 0 THEN ScalarFromI128(1)
                          ELSE pw.self,
                      !.self_power_tracker =
                          IF pw.target_factor % 2 = 0 THEN 0 ELSE 1,
                      !.available_power = Pow(2, Len(pw.powered_scalars))]
    /\ UNCHANGED <<gens, outs, made, protoVars, scalarVars, point, decoded, fs, cli>>

\* One test of the second while loop: the loop ends and the final product is
\* returned, or the last square is used if it fits (an index panic on the
\* empty vector), popped, and the available power halved.
PowCombineStep ==
    /\ pw.pc = "combine"
    /\ pw' =
         IF pw.self_power_tracker = pw.target_factor
         THEN LET squared == mul(pw.self_powered_by_target_factor,
                                 pw.self_powered_by_target_factor)
              IN  [pw EXCEPT !.pc = "done",
                             !.result = IF pw.target_factor * 2 = pw.n
                                        THEN squared
                                        ELSE mul(squared, pw.self)]
         ELSE LET fits == pw.self_power_tracker + pw.available_power
                              <= pw.target_factor
                  len == Len(pw.powered_scalars)
              IN  IF pw.self_power_tracker + pw.available_power > MaxExponent
                  THEN [pw EXCEPT !.pc = "overflow"]
                  ELSE IF fits /\ len = 0
                  THEN [pw EXCEPT !.pc = "panic"]
                  ELSE [pw EXCEPT
                           !.self_power_tracker =
                               IF fits THEN @ + pw.available_power ELSE @,
                           !.self_powered_by_target_factor =
                               IF fits THEN mul(@, pw.powered_scalars[len])
                               ELSE @,
                           !.powered_scalars =
                               IF len = 0 THEN @ ELSE SubSeq(@, 1, len - 1),
                           !.available_power = @ \div 2]
    /\ UNCHANGED <<gens, outs, made, protoVars, scalarVars, point, decoded, fs, cli>>

NextPow ==
    \/ \E self \in {0, 2, R - 1} : \E n \in 0..MaxExponent : PowCall(self, n)
    \/ PowSquareStep
    \/ PowCombineStep

\* One call of Scalar::pow, followed through its loops; a call that has
\* begun goes on.
SpecPow ==
    /\ InitScalar
    /\ [][NextPow]_vars
    /\ WF_vars(PowSquareStep)
    /\ WF_vars(PowCombineStep)

\* ------------------------------------------- points of integers and scalars
\* G1Point::from_i128(a)
G1FromI128(a) ==
    /\ point.op = "none"
    /\ point' = Made("G1Point::from_i128", a, G1Point_from_i128(a))
    /\ UNCHANGED <<gens, outs, made, protoVars, scalarVars, pw, decoded, fs, cli>>

\* G2Point::from_i128(a)
G2FromI128(a) ==
    /\ point.op = "none"
    /\ point' = Made("G2Point::from_i128", a, G2Point_from_i128(a))
    /\ UNCHANGED <<gens, outs, made, protoVars, scalarVars, pw, decoded, fs, cli>>

\* G1Point::from_scalar(scalar)
G1FromScalar ==
    /\ point.op = "none"
    /\ IsOk(scalar)
    /\ point' = Made("G1Point::from_scalar", scalar.val,
                     G1Point_from_scalar(scalar.val))
    /\ UNCHANGED <<gens, outs, made, protoVars, scalarVars, pw, decoded, fs, cli>>

\* G2Point::from_scalar(scalar)
G2FromScalar ==
    /\ point.op = "none"
    /\ IsOk(scalar)
    /\ point' = Made("G2Point::from_scalar", scalar.val,
                     G2Point_from_scalar(scalar.val))
    /\ UNCHANGED <<gens, outs, made, protoVars, scalarVars, pw, decoded, fs, cli>>

NextPoint ==
    \/ \E a \in I128 : FromI128(a)
    \/ \E b \in Buffers : FromLeBytes(b)
    \/ \E a \in I128 : G1FromI128(a)
    \/ \E a \in I128 : G2FromI128(a)
    \/ G1FromScalar
    \/ G2FromScalar

\* Integers and Scalars mapped onto the generators of G1 and G2.
SpecPoint == InitScalar /\ [][NextPoint]_vars

\* ------------------------------------------------------------ deserialization
\* The lengths of a compressed G1 point and of a compressed G2 point,
\* [u8; 48] and [u8; 96] scaled: longer than a scalar buffer, and the second
\* twice the first.
G1Bytes == 3
G2Bytes == 6

\* blst_p1_compress, blst_p2_compress: a flag byte, then the point written
\* most significant digit first.
blst_p1_compress(p) == <<1>> \o [i \in 1..(G1Bytes - 1) |-> (p \div Pow(ByteBase, G1Bytes - 1 - i)) % ByteBase]
blst_p2_compress(p) == <<1>> \o [i \in 1..(G2Bytes - 1) |-> (p \div Pow(ByteBase, G2Bytes - 1 - i)) % ByteBase]

\* blst_p1_uncompress, blst_p2_uncompress on a buffer of the right length:
\* BLST_SUCCESS and the point, or an error of BLST_ERROR.
blst_p1_uncompress(b) ==
    IF b[1] # 1 THEN Err("BLST_BAD_ENCODING")
    ELSE IF HexValue(SubSeq(b, 2, Len(b))) >= R THEN Err("BLST_POINT_NOT_ON_CURVE")
    ELSE Ok(HexValue(SubSeq(b, 2, Len(b))))

blst_p2_uncompress(b) ==
    IF b[1] # 1 THEN Err("BLST_BAD_ENCODING")
    ELSE IF HexValue(SubSeq(b, 2, Len(b))) >= R THEN Err("BLST_POINT_NOT_ON_CURVE")
    ELSE Ok(HexValue(SubSeq(b, 2, Len(b))))

\* ScalarVisitor::visit_seq on the elements of the sequence.
ScalarVisitor_visit_seq(elements) ==
    IF Len(elements) # ScalarBytes
    THEN Err("Invalid byte array, expected length 32")
    ELSE Ok(from_le_bytes(SubSeq(elements, 1, ScalarBytes)))

BytesToP1Unchecked(v) ==
    IF Len(v) # G1Bytes THEN Panic("copy_from_slice")
    ELSE IF IsOk(blst_p1_uncompress(v)) THEN blst_p1_uncompress(v)
    ELSE Err("Got error while uncompressing")

\* bytes_to_blst_p1 of G1Point's Deserialize (visit_seq, visit_bytes and
\* visit_borrowed_bytes all end in it).
bytes_to_blst_p1(v) ==
    IF Len(v) # G1Bytes THEN Err("Invalid length, expected 48")
    ELSE IF IsOk(blst_p1_uncompress(v)) THEN blst_p1_uncompress(v)
    ELSE Err("Got error while uncompressing")

\* bytes_to_blst_p2 of G2Point's Deserialize.
bytes_to_blst_p2(v) ==
    IF Len(v) # G2Bytes THEN Err("Invalid length, expected 96")
    ELSE IF IsOk(blst_p2_uncompress(v)) THEN blst_p2_uncompress(v)
    ELSE Err("Got error while uncompressing")

\* vec_to_blst_p1, vec_to_blst_p2 of SetupArtifact's Deserialize.
vec_to_blst_p1(v) ==
    IF Len(v) # G1Bytes THEN Err("Invalid length, expected 48")
    ELSE IF IsOk(blst_p1_uncompress(v)) THEN blst_p1_uncompress(v)
    ELSE Err("Got error while uncompressing")

vec_to_blst_p2(v) ==
    IF Len(v) # G2Bytes THEN Err("Invalid length, expected 96")
    ELSE IF IsOk(blst_p2_uncompress(v)) THEN blst_p2_uncompress(v)
    ELSE Err("Got error while uncompressing")

\* The two raw fields turned into a SetupArtifact, g1 first.
ArtifactOf(raw_g1, raw_g2) ==
    IF ~IsOk(vec_to_blst_p1(raw_g1)) THEN vec_to_blst_p1(raw_g1)
    ELSE IF ~IsOk(vec_to_blst_p2(raw_g2)) THEN vec_to_blst_p2(raw_g2)
    ELSE Ok(SetupArtifact(vec_to_blst_p1(raw_g1).val, vec_to_blst_p2(raw_g2).val))

\* SetupArtifactVisitor::visit_seq on the elements of the sequence.
SetupArtifactVisitor_visit_seq(seq) ==
    IF Len(seq) = 0 THEN Err("invalid length 0")
    ELSE IF ~IsOk(vec_to_blst_p1(seq[1])) THEN vec_to_blst_p1(seq[1])
    ELSE IF Len(seq) = 1 THEN Err("invalid length 1")
    ELSE ArtifactOf(seq[1], seq[2])

\* The loop of SetupArtifactVisitor::visit_map over the entries from the
\* i-th on; raw_g1 and raw_g2 are <<>> for None and <<v>> for Some(v).
RECURSIVE VisitEntries(_, _, _, _)
VisitEntries(map, i, raw_g1, raw_g2) ==
    IF i > Len(map)
    THEN IF raw_g1 = <<>> THEN Err("missing field g1")
         ELSE IF ~IsOk(vec_to_blst_p1(raw_g1[1])) THEN vec_to_blst_p1(raw_g1[1])
         ELSE IF raw_g2 = <<>> THEN Err("missing field g2")
         ELSE ArtifactOf(raw_g1[1], raw_g2[1])
    ELSE IF map[i].key = "g1"
    THEN IF raw_g1 # <<>> THEN Err("duplicate field g1")
         ELSE VisitEntries(map, i + 1, <<map[i].value>>, raw_g2)
    ELSE IF map[i].key = "g2"
    THEN IF raw_g2 # <<>> THEN Err("duplicate field g2")
         ELSE VisitEntries(map, i + 1, raw_g1, <<map[i].value>>)
    ELSE Err("unknown field")

\* SetupArtifactVisitor::visit_map on the entries of the map.
SetupArtifactVisitor_visit_map(map) == VisitEntries(map, 1, <<>>, <<>>)

\* Byte sequences handed to the deserializers: every length up to one more
\* than the longest buffer, over the flag byte and the extreme bytes.
ByteStrings == UNION {[1..n -> {0, 1, ByteBase - 1}] : n \in 0..(G2Bytes + 1)}

\* Raw fields of a serialized SetupArtifact: compressed points, buffers of
\* the right length that do not uncompress, and the empty buffer; maps of
\* up to one entry more than the two fields, under the keys g1 and g2 and
\* a key that is neither; sequences of up to two elements.
RawFields == {blst_p1_compress(1), blst_p2_compress(2), <<0, 0, 1>>, <<0, 0, 0, 0, 0, 2>>, <<>>}
ArtifactMaps == UNION {[1..n -> [key : {"g1", "g2", "g3"}, value : RawFields]] : n \in 0..3}
ArtifactSeqs == UNION {[1..n -> RawFields] : n \in 0..2}

\* Scalar::deserialize of a sequence of bytes
DeserializeScalar(elements) ==
    /\ decoded.op = "none"
    /\ decoded' = Made("Scalar", elements, ScalarVisitor_visit_seq(elements))
    /\ UNCHANGED <<gens, outs, made, protoVars, scalarVars, point, pw, fs, cli>>

\* G1Point::deserialize of a sequence of bytes
DeserializeG1(elements) ==
    /\ decoded.op = "none"
    /\ decoded' = Made("G1Point", elements, bytes_to_blst_p1(elements))
    /\ UNCHANGED <<gens, outs, made, protoVars, scalarVars, point, pw, fs, cli>>

\* G2Point::deserialize of a sequence of bytes
DeserializeG2(elements) ==
    /\ decoded.op = "none"
    /\ decoded' = Made("G2Point", elements, bytes_to_blst_p2(elements))
    /\ UNCHANGED <<gens, outs, made, protoVars, scalarVars, point, pw, fs, cli>>

\* SetupArtifact::deserialize of a map
DeserializeArtifactMap(map) ==
    /\ decoded.op = "none"
    /\ decoded' = Made("SetupArtifact map", map, SetupArtifactVisitor_visit_map(map))
    /\ UNCHANGED <<gens, outs, made, protoVars, scalarVars, point, pw, fs, cli>>

\* SetupArtifact::deserialize of a sequence
DeserializeArtifactSeq(seq) ==
    /\ decoded.op = "none"
    /\ decoded' = Made("SetupArtifact seq", seq, SetupArtifactVisitor_visit_seq(seq))
    /\ UNCHANGED <<gens, outs, made, protoVars, scalarVars, point, pw, fs, cli>>

NextDecode ==
    \/ decoded.op = "none" /\ \E b \in ByteStrings : DeserializeScalar(b)
    \/ decoded.op = "none" /\ \E b \in ByteStrings : DeserializeG1(b)
    \/ decoded.op = "none" /\ \E b \in ByteStrings : DeserializeG2(b)
    \/ decoded.op = "none" /\ \E m \in ArtifactMaps : DeserializeArtifactMap(m)
    \/ decoded.op = "none" /\ \E q \in ArtifactSeqs : DeserializeArtifactSeq(q)

\* One value deserialized at the storage boundary.
SpecDecode == InitScalar /\ [][NextDecode]_vars

\* ------------------------------------------- commit / open / verify sequence
\* Coefficients, points and results given by callers: the extremes of i128
\* and values around zero.
Coefs == {IMin, -1, 0, 1, 2, IMax}
Points == {IMin, -1, 0, 1, 2, IMax}
CoefficientInputs == UNION {[1..n -> Coefs] : n \in 0..(MaxDegree + 1)}

\* Secrets of the ceremonies that feed the protocol.
CeremonySecrets == {3, R + 2}

\* Results a caller may write over y: its neighbours, its opposite, zero and
\* the extremes.
AlteredResults(y) == ({y - 1, y + 1, -y, 0, IMin, IMax} \cap I128) \ {y}

\* The SRS: what generator 1 returned to .take(n).collect().
srs == outs[1]

\* Polynomial::try_from(value), once the SRS is collected.
TryFrom(value) ==
    /\ pc = "setup"
    /\ polynomial' = try_from(value).val
    /\ pc' = "polynomial"
    /\ UNCHANGED <<moreVars, scalarVars, gens, outs, made, commitment, evaluation, genuine, proof,
                   opened, verdict, other, summand, derived>>

\* Polynomial::from_constant(a), once the SRS is collected.
FromConstant(a) ==
    /\ pc = "setup"
    /\ polynomial' = from_constant(a)
    /\ pc' = "polynomial"
    /\ UNCHANGED <<moreVars, scalarVars, gens, outs, made, commitment, evaluation, genuine, proof,
                   opened, verdict, other, summand, derived>>

\* polynomial.commit(&setup_artifacts)
Commit ==
    /\ pc = "polynomial"
    /\ commitment' = commit(polynomial, srs)
    /\ pc' = "committed"
    /\ UNCHANGED <<moreVars, scalarVars, gens, outs, made, polynomial, evaluation, genuine, proof,
                   opened, verdict, other, summand, derived>>

\* polynomial.evaluate(&x)
Evaluate(x) ==
    /\ pc = "committed"
    /\ evaluation' = evaluate(polynomial, x)
    /\ genuine' = evaluate(polynomial, x)
    /\ pc' = "evaluated"
    /\ UNCHANGED <<moreVars, scalarVars, gens, outs, made, polynomial, commitment, proof, opened,
                   verdict, other, summand, derived>>

\* A caller writes the public field Evaluation.result, before or after the
\* proof is generated.
Tamper ==
    /\ pc \in {"evaluated", "proved"}
    /\ IsOk(evaluation)
    /\ \E y \in AlteredResults(evaluation.val.result) :
           evaluation' = Ok(Evaluation(evaluation.val.point, y))
    /\ pc' = IF pc = "evaluated" THEN "altered" ELSE "proved_altered"
    /\ UNCHANGED <<moreVars, scalarVars, gens, outs, made, polynomial, commitment, genuine, proof,
                   opened, verdict, other, summand, derived>>

\* polynomial.generate_evaluation_proof(&evaluation, &setup_artifacts)
GenerateProof ==
    /\ pc \in {"evaluated", "altered"}
    /\ IsOk(evaluation)
    /\ proof' = generate_evaluation_proof(polynomial, evaluation.val, srs)
    /\ opened' = evaluation
    /\ pc' = "proved"
    /\ UNCHANGED <<moreVars, scalarVars, gens, outs, made, polynomial, commitment, evaluation,
                   genuine, verdict, other, summand, derived>>

\* evaluation.verify_proof(&proof, &commitment, &setup_artifacts)
VerifyProof ==
    /\ pc \in {"proved", "proved_altered"}
    /\ IsOk(proof)
    /\ IsOk(commitment)
    /\ verdict' = verify_proof(evaluation.val, proof.val, commitment.val, srs)
    /\ pc' = "verified"
    /\ UNCHANGED <<moreVars, scalarVars, gens, outs, made, polynomial, commitment, evaluation,
                   genuine, proof, opened, other, summand, derived>>

\* polynomial.divide_by_root(&root)
DivideByRoot(root) ==
    /\ pc = "polynomial"
    /\ other' = Ok(root)
    /\ derived' = divide_by_root(polynomial, root)
    /\ pc' = "divided"
    /\ UNCHANGED <<moreVars, scalarVars, gens, outs, made, polynomial, commitment, evaluation,
                   genuine, proof, opened, verdict, summand>>

\* Polynomials subtracted from the one at hand.
SubtrahendInputs == UNION {[1..n -> {IMin, 0, 1}] : n \in 0..(MaxDegree + 1)}

\* polynomial.sub(&q)
Sub(q) ==
    /\ pc = "polynomial"
    /\ other' = Ok(q)
    /\ derived' = sub(polynomial, q)
    /\ pc' = "subtracted"
    /\ UNCHANGED <<moreVars, scalarVars, gens, outs, made, polynomial, commitment,
                   evaluation, genuine, proof, opened, verdict, summand>>

\* Polynomials added to the committed one.
SummandInputs == UNION {[1..n -> {IMin, -1, 1}] : n \in 0..2}

\* The commitment of p + q next to commit(p) and commit(q): q is negated as
\* 0.sub(q) and the sum is p.sub(-q).
SumOf(p, q) ==
    LET negated == sub(<<>>, q)
    IN  IF IsOk(negated) THEN sub(p, negated.val) ELSE negated

Add(value) ==
    /\ pc = "committed"
    /\ LET q == try_from(value).val
           total == SumOf(polynomial, q)
       IN  /\ other' = Ok(q)
           /\ summand' = commit(q, srs)
           /\ derived' = IF IsOk(total) THEN commit(total.val, srs) ELSE total
    /\ pc' = "summed"
    /\ UNCHANGED <<moreVars, scalarVars, gens, outs, made, polynomial, commitment, evaluation,
                   genuine, proof, opened, verdict>>

Init ==
    /\ \E s \in CeremonySecrets : made = [i \in Generators |-> s]
    /\ gens = [i \in Generators |-> new(made[i])]
    /\ outs = [i \in Generators |-> <<>>]
    /\ ProtoIdle
    /\ ScalarIdle
    /\ MoreIdle

Next ==
    \/ pc = "setup" /\ next(1)
    \/ pc = "setup" /\ \E value \in CoefficientInputs : TryFrom(value)
    \/ \E a \in Coefs : FromConstant(a)
    \/ Commit
    \/ \E x \in Points : Evaluate(x)
    \/ Tamper
    \/ GenerateProof
    \/ VerifyProof
    \/ \E root \in Points : DivideByRoot(root)
    \/ \E value \in SummandInputs : Add(value)

\* A ceremony, then one polynomial committed, opened and verified.
Spec == Init /\ [][Next]_vars

\* What an element of the SRS may be changed to: either half moved to the
\* next point, or both halves the identity.
ChangedArtifacts(a) ==
    {SetupArtifact(Mod(a.g1 + 1), a.g2), SetupArtifact(a.g1, Mod(a.g2 + 1)),
     SetupArtifact(0, 0)} \ {a}

\* polynomial.commit(&changed), changed being the SRS with one element
\* replaced.
CommitOnChanged ==
    /\ pc = "committed"
    /\ \E k \in 1..Len(srs) : \E a \in ChangedArtifacts(srs[k]) :
           /\ other' = Ok([srs EXCEPT ![k] = a])
           /\ derived' = commit(polynomial, [srs EXCEPT ![k] = a])
    /\ pc' = "recommitted"
    /\ UNCHANGED <<moreVars, scalarVars, gens, outs, made, polynomial, commitment,
                   evaluation, genuine, proof, opened, verdict, summand>>

\* evaluation.verify_proof(&proof, &commitment, &changed), changed being the
\* SRS with one element replaced.
VerifyOnChanged ==
    /\ pc = "verified"
    /\ \E k \in 1..Len(srs) : \E a \in ChangedArtifacts(srs[k]) :
           /\ other' = Ok([srs EXCEPT ![k] = a])
           /\ derived' = verify_proof(evaluation.val, proof.val, commitment.val,
                                      [srs EXCEPT ![k] = a])
    /\ pc' = "reverified"
    /\ UNCHANGED <<moreVars, scalarVars, gens, outs, made, polynomial, commitment,
                   evaluation, genuine, proof, opened, verdict, summand>>

\* Coefficients and points of the polynomials committed on a changed SRS.
SrsCoefficientInputs == UNION {[1..n -> {-1, 0, 2}] : n \in 0..(MaxDegree + 1)}
SrsPoints == {-1, 2}

NextSrs ==
    \/ pc = "setup" /\ next(1)
    \/ pc = "setup" /\ \E value \in SrsCoefficientInputs : TryFrom(value)
    \/ Commit
    \/ \E x \in SrsPoints : Evaluate(x)
    \/ GenerateProof
    \/ VerifyProof
    \/ CommitOnChanged
    \/ VerifyOnChanged

\* A ceremony, a polynomial committed, opened and verified, and the same
\* calls on an SRS that differs in one element.
SpecSrs == Init /\ [][NextSrs]_vars

NextPoly ==
    \/ pc = "setup" /\ \E value \in CoefficientInputs : TryFrom(value)
    \/ \E a \in Coefs : FromConstant(a)
    \/ Commit
    \/ \E x \in Points : Evaluate(x)
    \/ \E root \in Points : DivideByRoot(root)
    \/ pc = "polynomial" /\ \E value \in SubtrahendInputs : Sub(try_from(value).val)
    \/ \E a \in Coefs : Sub(from_constant(a))
    \/ Sub(polynomial)

\* The operations of Polynomial that take no SRS, on one polynomial (commit
\* is called with the empty SRS).
SpecPoly == Init /\ [][NextPoly]_vars

\* ===================================================================== claims
\* ------------------------------------------------------------------ main.rs
\* const MAX_DEGREE
MAX_DEGREE == MaxDegree

\* The outcome of a command: the files it leaves, its result, and the
\* files it has read.
Exit(f, result, read) == [fs |-> f, exit |-> result, read |-> read]

\* .take(n).collect() on a generator.
RECURSIVE Collected(_, _)
Collected(g, n) ==
    IF n = 0 THEN <<>> ELSE <<NextItem(g)>> \o Collected(NextState(g), n - 1)

\* serde_json::to_string(&setup_artifacts): an array of maps {g1, g2} of
\* compressed points.
SetupToString(setup_artifacts) ==
    [i \in 1..Len(setup_artifacts) |->
        << [key |-> "g1", value |-> blst_p1_compress(setup_artifacts[i].g1)],
           [key |-> "g2", value |-> blst_p2_compress(setup_artifacts[i].g2)] >>]

\* The elements of the array from the i-th on, each through SetupArtifact's
\* Deserialize; the first error ends the reading.
RECURSIVE ReadArtifacts(_, _, _)
ReadArtifacts(text, i, read) ==
    IF i > Len(text) THEN Ok(read)
    ELSE IF ~IsOk(SetupArtifactVisitor_visit_map(text[i]))
    THEN SetupArtifactVisitor_visit_map(text[i])
    ELSE ReadArtifacts(text, i + 1,
                       Append(read, SetupArtifactVisitor_visit_map(text[i]).val))

FromReaderLenient(file) ==
    IF file.holds # "SRS" THEN Err("invalid type")
    ELSE ReadArtifacts(file.text, 1, <<>>)

\* serde_json::from_reader::<Vec<SetupArtifact>>: a document cut short, or
\* empty, is a syntax error.
from_reader_setup(file) ==
    IF ~file.complete THEN Err("EOF while parsing")
    ELSE IF file.holds # "SRS" THEN Err("invalid type")
    ELSE ReadArtifacts(file.text, 1, <<>>)

\* serde_json::to_string(&CommitmentArtifact { polynomial, commitment }).
CommitmentToString(p, c) == <<p, blst_p1_compress(c)>>

\* serde_json::from_reader::<CommitmentArtifact>.
from_reader_commitment(file) ==
    IF ~file.complete THEN Err("EOF while parsing")
    ELSE IF file.holds # "commitment" THEN Err("invalid type")
    ELSE IF ~IsOk(bytes_to_blst_p1(file.text[2])) THEN bytes_to_blst_p1(file.text[2])
    ELSE Ok([polynomial |-> file.text[1],
             commitment |-> bytes_to_blst_p1(file.text[2]).val])

\* The calls of std::fs and serde_json that may fail in each command; a
\* failing write_all has written nothing, or a part of the document.
Faults(command) ==
    IF command = "trusted-setup"
    THEN {"none", "exists folder", "create_dir", "exists", "remove_file", "create", "to_string", "write_all", "write_all part"}
    ELSE IF command = "commit"
    THEN {"none", "exists setup", "open", "to_string", "exists", "remove_file", "create", "write_all", "write_all part"}
    ELSE {"none", "exists", "open"}

\* if exists(path) { remove_file(path) }; File::create(path);
\* file.write_all(text), with the call that fails.
Replace(f, path, holds, text, fault, read) ==
    IF fault = "exists" THEN Exit(f, Err("std::io::Error"), read)
    ELSE IF f.files[path].exists /\ fault = "remove_file"
    THEN Exit(f, Err("std::io::Error"), read)
    ELSE IF fault = "create"
    THEN Exit([f EXCEPT !.files[path] = Absent], Err("std::io::Error"), read)
    ELSE IF fault = "write_all"
    THEN Exit([f EXCEPT !.files[path] = Holding(FALSE, "nothing", <<>>)],
              Err("std::io::Error"), read)
    ELSE IF fault = "write_all part"
    THEN Exit([f EXCEPT !.files[path] =
                            Holding(FALSE, holds, SubSeq(text, 1, Len(text) - 1))],
              Err("std::io::Error"), read)
    ELSE Exit([f EXCEPT !.files[path] = Holding(TRUE, holds, text)], Ok("()"), read)

\* Commands::run, TrustedSetup: the file is created before the artifacts
\* are generated, stringified and written.
RunTrustedSetup(f, s_be_bytes, fault) ==
    IF fault = "exists folder" THEN Exit(f, Err("std::io::Error"), {})
    ELSE IF ~f.dir /\ fault = "create_dir" THEN Exit(f, Err("std::io::Error"), {})
    ELSE LET made_dir == [f EXCEPT !.dir = TRUE]
             setup_artifacts == Collected(new(s_be_bytes), MAX_DEGREE + 1)
         IN  IF fault = "to_string"
             THEN Exit(Replace(made_dir, SETUP_ARTIFACTS_FOLDER_PATH, "SRS", <<>>, "write_all", {}).fs,
                       Err("serde_json::Error"), {})
             ELSE Replace(made_dir, SETUP_ARTIFACTS_FOLDER_PATH, "SRS",
                          SetupToString(setup_artifacts), fault, {})

RunCommitOnPartSetup(f, coefficients, fault) ==
    LET committed_polynomial == try_from(coefficients).val
        setup_artifacts == FromReaderLenient(f.files[SETUP_ARTIFACTS_FOLDER_PATH])
        committed == commit(committed_polynomial, setup_artifacts.val)
    IN  IF degree(committed_polynomial) > MAX_DEGREE
        THEN Exit(f, Err("Only polynomials up to degree 9 are supported"), {})
        ELSE IF ~f.files[SETUP_ARTIFACTS_FOLDER_PATH].exists
        THEN Exit(f, Err("Trusted setup artifacts have not been found"), {})
        ELSE IF ~IsOk(setup_artifacts)
        THEN Exit(f, setup_artifacts, {SETUP_ARTIFACTS_FOLDER_PATH})
        ELSE IF ~IsOk(committed)
        THEN Exit(f, committed, {SETUP_ARTIFACTS_FOLDER_PATH})
        ELSE Replace(f, COMMITMENT_ARTIFACTS_FOLDER_PATH, "commitment",
                     CommitmentToString(committed_polynomial, committed.val), fault,
                     {SETUP_ARTIFACTS_FOLDER_PATH})

\* Commands::run, Commit: the polynomial of the coefficients, the degree
\* test, the SRS read from setup.json, the commitment, then the file.
RunCommit(f, coefficients, fault) ==
    LET committed_polynomial == try_from(coefficients).val
        setup_artifacts == from_reader_setup(f.files[SETUP_ARTIFACTS_FOLDER_PATH])
        committed == commit(committed_polynomial, setup_artifacts.val)
    IN  IF degree(committed_polynomial) > MAX_DEGREE
        THEN Exit(f, Err("Only polynomials up to degree 9 are supported"), {})
        ELSE IF fault = "exists setup" THEN Exit(f, Err("std::io::Error"), {})
        ELSE IF ~f.files[SETUP_ARTIFACTS_FOLDER_PATH].exists
        THEN Exit(f, Err("Trusted setup artifacts have not been found"), {})
        ELSE IF fault = "open" THEN Exit(f, Err("std::io::Error"), {})
        ELSE IF ~IsOk(setup_artifacts)
        THEN Exit(f, setup_artifacts, {SETUP_ARTIFACTS_FOLDER_PATH})
        ELSE IF ~IsOk(committed)
        THEN Exit(f, committed, {SETUP_ARTIFACTS_FOLDER_PATH})
        ELSE IF fault = "to_string"
        THEN Exit(f, Err("serde_json::Error"), {SETUP_ARTIFACTS_FOLDER_PATH})
        ELSE Replace(f, COMMITMENT_ARTIFACTS_FOLDER_PATH, "commitment",
                     CommitmentToString(committed_polynomial, committed.val), fault,
                     {SETUP_ARTIFACTS_FOLDER_PATH})

\* Commands::run, Evaluate: the commitment artifact is read and its
\* polynomial evaluated at x; the result is logged.
RunEvaluate(f, x, fault) ==
    LET commitment_artifact == from_reader_commitment(f.files[COMMITMENT_ARTIFACTS_FOLDER_PATH])
        y == evaluate(commitment_artifact.val.polynomial, x)
    IN  IF fault = "exists" THEN Exit(f, Err("std::io::Error"), {})
        ELSE IF ~f.files[COMMITMENT_ARTIFACTS_FOLDER_PATH].exists
        THEN Exit(f, Err("Commitment artifact has not been found"), {})
        ELSE IF fault = "open" THEN Exit(f, Err("std::io::Error"), {})
        ELSE IF ~IsOk(commitment_artifact)
        THEN Exit(f, commitment_artifact, {COMMITMENT_ARTIFACTS_FOLDER_PATH})
        ELSE IF ~IsOk(y)
        THEN Exit(f, y, {COMMITMENT_ARTIFACTS_FOLDER_PATH})
        ELSE Exit(f, Ok("()"), {COMMITMENT_ARTIFACTS_FOLDER_PATH})

\* The session after one more command: the command just run with its
\* result and the files it has read, and the commands that had succeeded
\* before it.
Ran(command, run) ==
    [command |-> command, exit |-> run.exit, read |-> run.read,
     before |-> IF IsOk(cli.exit) THEN cli.before \cup {cli.command}
                ELSE cli.before]

\* Coefficients and points given on the command line: a polynomial of
\* every degree up to one above MAX_DEGREE, and the zero polynomial.
CliCoefficients == {[i \in 1..n |-> 1] : n \in 1..(MAX_DEGREE + 2)} \cup {<<0>>, <<1, 0>>}
CliPoints == {2, IMax}

\* kzg trusted-setup, with the secret drawn by rand::rng()
CliTrustedSetup(s_be_bytes, fault) ==
    /\ \E run \in {RunTrustedSetup(fs, s_be_bytes, fault)} :
          /\ fs' = run.fs
          /\ cli' = Ran("trusted-setup", run)
    /\ UNCHANGED <<gens, outs, made, protoVars, scalarVars, point, pw, decoded>>

\* kzg commit <coefficients>
CliCommit(coefficients, fault) ==
    /\ \E run \in {RunCommit(fs, coefficients, fault)} :
          /\ fs' = run.fs
          /\ cli' = Ran("commit", run)
    /\ UNCHANGED <<gens, outs, made, protoVars, scalarVars, point, pw, decoded>>

\* kzg evaluate <x>
CliEvaluate(x, fault) ==
    /\ \E run \in {RunEvaluate(fs, x, fault)} :
          /\ fs' = run.fs
          /\ cli' = Ran("evaluate", run)
    /\ UNCHANGED <<gens, outs, made, protoVars, scalarVars, point, pw, decoded>>

\* The artifacts folder is missing, or there and empty.
InitCli ==
    /\ made = [i \in Generators |-> 0]
    /\ gens = [i \in Generators |-> new(made[i])]
    /\ outs = [i \in Generators |-> <<>>]
    /\ ProtoIdle
    /\ ScalarIdle
    /\ point = Made("none", 0, 0)
    /\ pw = [pc |-> "idle"]
    /\ decoded = Made("none", <<>>, None)
    /\ fs \in {NoFiles, [NoFiles EXCEPT !.dir = TRUE]}
    /\ cli = NoRuns

NextCli ==
    \/ \E s \in CeremonySecrets : \E fault \in Faults("trusted-setup") : CliTrustedSetup(s, fault)
    \/ \E c \in CliCoefficients : \E fault \in Faults("commit") : CliCommit(c, fault)
    \/ \E x \in CliPoints : \E fault \in Faults("evaluate") : CliEvaluate(x, fault)

\* Sessions of commands on one artifacts folder.
SpecCli == InitCli /\ [][NextCli]_vars

\* ------------------------------------------------------------ generator (C8, C9)
\* s^k mod r, by repeated multiplication of residues.
RECURSIVE PowMod(_, _)
PowMod(s, k) == IF k = 0 THEN 1 % R ELSE ((s % R) * PowMod(s, k - 1)) % R

\* C8: the (k+1)-th item a generator built from secret s returns is the pair
\* ((s^k mod r)*G1, (s^k mod r)*G2); the first is the pair of generators.
C8_PowersOfSecret ==
    \A i \in Generators : \A k \in 1..Len(outs[i]) :
        /\ outs[i][k].g1 = PowMod(made[i], k - 1)
        /\ outs[i][k].g2 = PowMod(made[i], k - 1)
        /\ k = 1 => outs[i][k] = SetupArtifact(1, 1)

C8_Witness ==
    /\ made[1] = R + 2
    /\ Len(outs[1]) = MaxSrs
    /\ outs[1][3] = SetupArtifact(4, 4)

\* C9 as stated: sequences from the same secret agree element by element;
\* sequences from different secrets agree on the zero-th element and differ
\* on every later one.
C9_DifferentSecretsDiverge ==
    \A k \in 1..Len(outs[1]) :
        k <= Len(outs[2]) =>
            /\ made[1] = made[2] => outs[1][k] = outs[2][k]
            /\ made[1] # made[2] /\ k = 1 => outs[1][k] = outs[2][k]
            /\ made[1] # made[2] /\ k > 1 => outs[1][k] # outs[2][k]

\* C9, amended: sequences from the same secret agree element by element;
\* sequences from secrets that differ modulo r agree on the zero-th element
\* and differ on the second element (index 1).
C9_SecretsModRDiverge ==
    \A k \in 1..Len(outs[1]) :
        k <= Len(outs[2]) =>
            /\ made[1] = made[2] => outs[1][k] = outs[2][k]
            /\ made[1] % R # made[2] % R /\ k = 1 => outs[1][k] = outs[2][k]
            /\ made[1] % R # made[2] % R /\ k = 2 => outs[1][k] # outs[2][k]

C9_Witness ==
    /\ made[1] = 3
    /\ made[2] = R + 2
    /\ Len(outs[1]) >= 2
    /\ Len(outs[2]) >= 2
    /\ outs[1][1] = outs[2][1]
    /\ outs[1][2] # outs[2][2]

\* -------------------------------------------- commit / open / verify (C1-C7)
\* The value of the polynomial with coefficients c at x, over the integers.
RECURSIVE ValueAt(_, _)
ValueAt(c, x) == IF c = <<>> THEN 0 ELSE c[1] + x * ValueAt(Tail(c), x)

\* The quotient of c by (x - z) over the integers, ascending:
\* b_{n-1} = a_n and b_{i-1} = a_i + z*b_i.
RECURSIVE QuotientBy(_, _)
QuotientBy(c, z) ==
    IF Len(c) <= 1 THEN <<>>
    ELSE LET upper == QuotientBy(Tail(c), z)
         IN  IF upper = <<>> THEN <<c[2]>>
             ELSE <<c[2] + z * upper[1]>> \o upper

\* C1: for every polynomial, every SRS of length >= degree+1 and every point,
\* the evaluation succeeds, the proof of that evaluation is generated and
\* verify_proof returns true against the commitment.
C1_RoundTrip ==
    Len(srs) >= degree(polynomial) + 1 =>
        /\ pc = "evaluated" => IsOk(evaluation)
        /\ pc = "proved" /\ opened = genuine => IsOk(proof)
        /\ pc = "verified" /\ opened = genuine /\ evaluation = genuine =>
               IsOk(verdict) /\ verdict.val = TRUE

\* C2: generate_evaluation_proof fails whenever the result differs from the
\* value of the polynomial at the point, and succeeds when the result is the
\* value and the SRS is long enough.
C2_ProofOnlyOfTrueValue ==
    pc = "proved" =>
        LET y == ValueAt(polynomial, opened.val.point)
        IN  /\ opened.val.result # y => ~IsOk(proof)
            /\ opened.val.result = y /\ Len(srs) >= degree(polynomial) + 1 =>
                   IsOk(proof)

\* The case of C3: a proof of the genuine evaluation, verified against the
\* commitment of the polynomial with the result changed.
AlteredAfterProof ==
    /\ pc = "verified"
    /\ opened = genuine
    /\ evaluation.val.point = genuine.val.point
    /\ evaluation.val.result # genuine.val.result

C4_DivisionExact ==
    pc = "divided" /\ Len(polynomial) >= 2 =>
        LET z == other.val
            r == ValueAt(polynomial, z)
        IN  /\ r = 0 => IsOk(derived) /\ derived.val = QuotientBy(polynomial, z)
            /\ r # 0 => IsErr(derived)
            /\ IsErr(derived) /\ derived.val = DivisionMismatch => r # 0

\* The sum over i of coefficient_i * srs[i].g1 in the group, a negative
\* coefficient contributing the opposite of |coefficient_i| * srs[i].g1.
RECURSIVE SumOfTerms(_, _, _)
SumOfTerms(c, g, n) ==
    IF n = 0 THEN 0
    ELSE LET term == (Abs(c[n]) * g[n].g1) % R
             signed == IF c[n] < 0 THEN (R - term) % R ELSE term
         IN  (SumOfTerms(c, g, n - 1) + signed) % R

\* C5: a successful commit is the sum of coefficient_i * srs[i].g1 from the
\* identity; the zero polynomial commits to the identity.
C5_CommitIsSum ==
    pc = "committed" /\ IsOk(commitment) =>
        /\ commitment.val = SumOfTerms(polynomial, srs, Len(polynomial))
        /\ polynomial = <<>> => commitment.val = 0

C5_Witness ==
    /\ pc = "committed"
    /\ IsOk(commitment)
    /\ polynomial = <<IMin, 1, -1>>
    /\ made[1] = 3
    /\ commitment.val = (3 * R - 8 + 3 - 9) % R

\* C6: commit fails with InsufficientSrs exactly when degree()+1 > len(srs)
\* and succeeds otherwise, without indexing the SRS out of range.
C6_CommitNeedsDegreePlusOne ==
    pc = "committed" =>
        LET needed == IF Len(polynomial) = 0 THEN 1 ELSE Len(polynomial)
        IN  /\ needed > Len(srs) =>
                IsErr(commitment) /\ commitment.val = InsufficientSrs
            /\ needed <= Len(srs) => IsOk(commitment)
            /\ commitment.kind # "panic"

C6_Witness ==
    /\ pc = "committed"
    /\ polynomial = <<>>
    /\ srs = <<>>
    /\ IsErr(commitment)
    /\ commitment.val = InsufficientSrs

\* C7: verify_proof with an SRS of fewer than 2 elements returns an
\* InsufficientSrs error value.
C7_ShortSrsIsAnError ==
    pc = "verified" /\ Len(srs) < 2 =>
        IsErr(verdict) /\ verdict.val = InsufficientSrs

\* C10: for p and q that both fit the SRS, commit(p) + commit(q) is the
\* commitment of p.sub(q negated).
C10_Homomorphism ==
    pc = "summed" /\ IsOk(commitment) /\ IsOk(summand) =>
        /\ IsOk(derived)
        /\ derived.val = G1Point_add(commitment.val, summand.val)

\* ------------------------------------------------- scalars (C11-C13, C19)
\* The number a buffer writes, least significant byte first.
RECURSIVE LittleEndianValue(_)
LittleEndianValue(b) ==
    IF b = <<>> THEN 0 ELSE b[1] + ByteBase * LittleEndianValue(Tail(b))

\* The number a buffer writes, most significant byte first.
BigEndianValue(b) == LittleEndianValue(Reverse(b))

\* C11: reading back the bytes written for a scalar gives the scalar, in
\* both byte orders; writing the scalar read from a buffer that encodes a
\* value below r gives the buffer, in both byte orders; the two encodings of
\* one scalar are byte reversals of each other.
C11_BytesRoundTrip ==
    /\ IsOk(le_bytes) => from_le_bytes(le_bytes.val) = scalar.val
    /\ IsOk(be_bytes) => from_be_bytes(be_bytes.val) = scalar.val
    /\ /\ scalar_from.op = "from_le_bytes"
       /\ LittleEndianValue(scalar_from.arg) < R
       /\ IsOk(le_bytes)
       => le_bytes.val = scalar_from.arg
    /\ /\ scalar_from.op = "from_be_bytes"
       /\ BigEndianValue(scalar_from.arg) < R
       /\ IsOk(be_bytes)
       => be_bytes.val = scalar_from.arg
    /\ IsOk(le_bytes) /\ IsOk(be_bytes) =>
           \A i \in 1..ScalarBytes :
               be_bytes.val[i] = le_bytes.val[ScalarBytes + 1 - i]

C11_Witness ==
    /\ scalar_from.op = "from_be_bytes"
    /\ BigEndianValue(scalar_from.arg) = R - 1
    /\ scalar = Ok(R - 1)
    /\ IsOk(le_bytes)
    /\ IsOk(be_bytes)
    /\ be_bytes.val = scalar_from.arg
    /\ be_bytes.val = <<(R - 1) \div ByteBase, (R - 1) % ByteBase>>
    /\ le_bytes.val # be_bytes.val

C13_PowIsRepeatedProduct ==
    scalar_from.op = "pow" =>
        /\ IsOk(scalar)
        /\ scalar.val = PowMod(scalar_from.arg.base, scalar_from.arg.n)
        /\ scalar_from.arg.n = 0 => scalar.val = 1
        /\ scalar_from.arg.n = 1 => scalar.val = scalar_from.arg.base

C13_Witness ==
    /\ scalar_from = Source("pow", [base |-> 2, n |-> 21])
    /\ scalar = Ok((2 * 1024 * 1024) % R)

\* The decimal digits of a natural number, as an arbitrary-precision
\* unsigned integer is written: zero is the single digit 0.
RECURSIVE Decimal(_)
Decimal(n) == IF n < 10 THEN <<n>> ELSE Append(Decimal(n \div 10), n % 10)

\* C19: Display writes the decimal digits of the canonical residue, the
\* same string as the decimal rendering of that number, for every value in
\* [0, r) including zero.
C19_DisplayIsDecimal ==
    IsOk(scalar) /\ IsOk(shown) => shown.val = Decimal(scalar.val)

\* ------------------------------------------------- polynomials (C14-C18)
Normalized(c) == c = <<>> \/ c[Len(c)] # 0

\* C14: every polynomial returned by try_from, from_constant, sub or
\* divide_by_root has no trailing zero coefficient, the zero polynomial being
\* the empty sequence.
C14_Normalized ==
    /\ pc # "setup" => Normalized(polynomial)
    /\ pc \in {"divided", "subtracted"} /\ IsOk(derived) => Normalized(derived.val)

\* C15: evaluate(x) returns the sum over i of coefficient_i * x^i, for every
\* polynomial and point: 0 for the zero polynomial and the constant term at
\* x = 0.
C15_EvaluateIsSum ==
    pc = "evaluated" =>
        /\ IsOk(evaluation)
        /\ evaluation.val.result = ValueAt(polynomial, evaluation.val.point)
        /\ polynomial = <<>> => evaluation.val.result = 0
        /\ polynomial # <<>> /\ evaluation.val.point = 0 =>
               evaluation.val.result = polynomial[1]

\* C16: evaluate and sub return a result for every polynomial and point, and
\* divide_by_root never fails for an overflow.
C16_NoOverflow ==
    /\ pc = "evaluated" => IsOk(evaluation)
    /\ pc = "subtracted" => IsOk(derived)
    /\ pc = "divided" /\ IsErr(derived) => derived.val # Overflow

\* C17: divide_by_root returns the zero polynomial on the zero polynomial
\* and the UndividablePolynomial error on a nonzero constant, for every
\* root; that error is not the DivisionMismatch error.
C17_DivideConstants ==
    /\ UndividablePolynomial # DivisionMismatch
    /\ pc = "divided" /\ (polynomial = <<>> \/ polynomial = <<0>>) =>
           IsOk(derived) /\ derived.val = <<>>
    /\ pc = "divided" /\ Len(polynomial) = 1 /\ polynomial # <<0>> =>
           IsErr(derived) /\ derived.val = UndividablePolynomial

C17_Witness ==
    /\ pc = "divided"
    /\ polynomial = <<IMin>>
    /\ other = Ok(IMax)
    /\ IsErr(derived)
    /\ derived.val = UndividablePolynomial

\* The coefficient-wise difference of a and b, the shorter one padded with
\* zeros, without its trailing zeros.
Difference(a, b) ==
    LET n == IF Len(a) > Len(b) THEN Len(a) ELSE Len(b)
        at(c, i) == IF i <= Len(c) THEN c[i] ELSE 0
    IN  Strip([i \in 1..n |-> at(a, i) - at(b, i)])

\* C18: sub returns the coefficient-wise difference with the shorter operand
\* padded with zeros and the trailing zeros stripped, whichever operand is
\* longer; p.sub(p) is the zero polynomial.
C18_SubIsDifference ==
    pc = "subtracted" =>
        /\ IsOk(derived)
        /\ derived.val = Difference(polynomial, other.val)
        /\ other.val = polynomial => derived.val = <<>>

\* ------------------------------------------------------ SRS consumption (C20)
SameResult(a, b) == a.kind = b.kind /\ a.val = b.val

\* C20: commit on an SRS that keeps the g1 halves of the first n elements (n
\* the number of coefficients) returns what commit returned; verify_proof on
\* an SRS that keeps the g2 half of the element at index 1 returns what
\* verify_proof returned.
C20_SrsConsumption ==
    /\ /\ pc = "recommitted"
       /\ \A i \in 1..Len(polynomial) :
              i <= Len(srs) => other.val[i].g1 = srs[i].g1
       => SameResult(derived, commitment)
    /\ /\ pc = "reverified"
       /\ Len(srs) >= 2 => other.val[2].g2 = srs[2].g2
       => SameResult(derived, verdict)

C20_Witness ==
    /\ pc = "recommitted"
    /\ polynomial = <<-1, 2>>
    /\ Len(srs) = MaxSrs
    /\ other.val[2].g2 # srs[2].g2
    /\ other.val[2].g1 = srs[2].g1
    /\ IsOk(commitment)
    /\ derived = commitment

\* ------------------------------------------------ proof and SRS length (C21)
\* C21: generate_evaluation_proof succeeds for the genuine evaluation of any
\* polynomial p whenever the SRS holds at least degree(p) artifacts.
C21_ProofNeedsDegreeArtifacts ==
    pc = "proved" /\ opened = genuine /\ Len(srs) >= degree(polynomial) =>
        IsOk(proof)

\* ------------------------------------------------------ generators (C23, C26)
\* The sequence a generator built from secret s yields in n calls alone.
AloneItems(s, n) ==
    [k \in 1..n |-> SetupArtifact(PowMod(s, k - 1), PowMod(s, k - 1))]

\* C23: under any interleaving of next() on two generators each one yields
\* the sequence it yields alone, and a call on one leaves the secret, the
\* power cursor and the zero-th-element flag of the other unchanged.
C23_GeneratorsIndependent ==
    /\ [](\A i \in Generators : outs[i] = AloneItems(made[i], Len(outs[i])))
    /\ [][\E i \in Generators : \A j \in Generators \ {i} :
              gens'[j] = gens[j] /\ outs'[j] = outs[j]]_vars

C23_Witness ==
    /\ made[1] = 2
    /\ made[2] = 3
    /\ Len(outs[1]) = 3
    /\ Len(outs[2]) = 2
    /\ gens[1].current_s_powered = 4
    /\ gens[2].current_s_powered = 3

\* C26: the secret of a generator is the one given to new; the flag is true
\* exactly while next has not been called; after the first call the cursor
\* is 1 and after n >= 1 calls it is secret^(n-1).
C26_CursorInvariant ==
    \A i \in Generators :
        LET n == Len(outs[i])
        IN  /\ gens[i].secret = made[i]
            /\ gens[i].is_at_power_zero <=> n = 0
            /\ n <= 1 => gens[i].current_s_powered = 1
            /\ n >= 1 => gens[i].current_s_powered = Pow(made[i], n - 1)

C26_Witness ==
    /\ made[1] = R + 2
    /\ Len(outs[1]) = MaxSrs
    /\ gens[1] = [secret |-> R + 2, is_at_power_zero |-> FALSE,
                  current_s_powered |-> Pow(R + 2, MaxSrs - 1)]

\* ----------------------------------------------------------- quotient (C28)
\* C28: when divide_by_root succeeds on a polynomial of degree n >= 1 the
\* quotient has exactly n coefficients and its leading coefficient is the
\* dividend's.
C28_QuotientKeepsLeading ==
    pc = "divided" /\ Len(polynomial) >= 2 /\ IsOk(derived) =>
        /\ Len(derived.val) = Len(polynomial) - 1
        /\ derived.val[Len(derived.val)] = polynomial[Len(polynomial)]

C28_Witness ==
    /\ pc = "divided"
    /\ polynomial = <<-1, 0, 1>>
    /\ other = Ok(1)
    /\ derived = Ok(<<1, 1>>)

\* ------------------------------------------- points of integers (C30)
\* C30: G1Point::from_i128(v) is G1Point::from_scalar(Scalar::from(v)) and
\* likewise in G2, for every i128 v; a negative v gives the opposite of the
\* point of |v| and 0 gives the identity.
C30_IntegerAndScalarAgree ==
    /\ point.op = "G1Point::from_i128" =>
           /\ point.val = G1Point_from_scalar(ScalarFromI128(point.arg))
           /\ point.arg < 0 => point.val = (R - Abs(point.arg)) % R
           /\ point.arg = 0 => point.val = 0
    /\ point.op = "G2Point::from_i128" =>
           /\ point.val = G2Point_from_scalar(ScalarFromI128(point.arg))
           /\ point.arg < 0 => point.val = (R - Abs(point.arg)) % R
           /\ point.arg = 0 => point.val = 0
    /\ point.op = "G1Point::from_scalar" /\ scalar_from.op = "from_i128" =>
           point.val = G1Point_from_i128(scalar_from.arg)
    /\ point.op = "G2Point::from_scalar" /\ scalar_from.op = "from_i128" =>
           point.val = G2Point_from_i128(scalar_from.arg)

C30_Witness ==
    /\ scalar_from = Source("from_i128", IMin)
    /\ point = Made("G1Point::from_scalar", R + IMin, R + IMin)

\* ------------------------------------------------- the loops of pow (C29)
PowRunning == pw.pc \in {"squares", "combine"}

\* C29: for every exponent n >= 2 both loops of pow end, the second with
\* its power tracker equal to n/2; the last element of the empty list of
\* squares is never read and the doubling counter never exceeds n/2.
C29_PowLoopsEnd ==
    /\ [](pw.pc \notin {"panic", "overflow"})
    /\ [](pw.pc = "squares" => pw.current_power_of_two <= pw.target_factor)
    /\ [](pw.pc = "done" /\ pw.n >= 2 =>
              pw.self_power_tracker = pw.target_factor)
    /\ PowRunning ~> pw.pc = "done"

C29_Witness ==
    /\ pw.pc = "done"
    /\ pw.n = 21
    /\ pw.self = 2
    /\ pw.self_power_tracker = 10
    /\ pw.powered_scalars = <<>>
    /\ pw.available_power = 1
    /\ pw.result = pow(2, 21).val

\* ---------------------------------------------- decoding errors (C22)
\* The entries of a map under one key.
EntriesOf(map, key) == {i \in 1..Len(map) : map[i].key = key}

\* Byte sequences that are not the compression of a G1 / G2 point.
NotG1(b) == Len(b) # G1Bytes \/ b \notin {blst_p1_compress(p) : p \in 0..(R - 1)}
NotG2(b) == Len(b) # G2Bytes \/ b \notin {blst_p2_compress(p) : p \in 0..(R - 1)}

\* A map that lacks or repeats g1 or g2, or holds a field that is no point.
BadMap(map) ==
    \/ \E key \in {"g1", "g2"} : Cardinality(EntriesOf(map, key)) # 1
    \/ \E i \in EntriesOf(map, "g1") : NotG1(map[i].value)
    \/ \E i \in EntriesOf(map, "g2") : NotG2(map[i].value)

\* A sequence that lacks g1 or g2, or holds a field that is no point.
BadSeq(seq) ==
    \/ Len(seq) < 2
    \/ NotG1(seq[1])
    \/ NotG2(seq[2])

\* C22: deserialization returns an error, and neither panics nor returns
\* a value, when a scalar is not exactly 32 bytes, a G1 point not exactly
\* 48 bytes, a G2 point not exactly 96 bytes, the bytes are not the
\* compression of a point, or a SetupArtifact lacks or repeats g1 or g2.
C22_DecodingErrors ==
    /\ decoded.val.kind # "panic"
    /\ (decoded.op = "Scalar" /\ Len(decoded.arg) # ScalarBytes) => IsErr(decoded.val)
    /\ (decoded.op = "G1Point" /\ NotG1(decoded.arg)) => IsErr(decoded.val)
    /\ (decoded.op = "G2Point" /\ NotG2(decoded.arg)) => IsErr(decoded.val)
    /\ (decoded.op = "SetupArtifact map" /\ BadMap(decoded.arg)) => IsErr(decoded.val)
    /\ (decoded.op = "SetupArtifact seq" /\ BadSeq(decoded.arg)) => IsErr(decoded.val)

C22_Witness ==
    /\ decoded.op = "SetupArtifact map"
    /\ Len(decoded.arg) = 3
    /\ decoded.arg[1] = [key |-> "g2", value |-> blst_p2_compress(2)]
    /\ decoded.arg[2] = [key |-> "g1", value |-> blst_p1_compress(1)]
    /\ decoded.arg[3].key = "g1"
    /\ decoded.val = Err("duplicate field g1")

\* ------------------------------------------------- command line (C24, C25, C27)
\* C24: no failure of the trusted-setup or commit command, at any step of
\* the command, leaves setup.json or commitment.json partially written or
\* empty.
C24_NoPartialArtifacts ==
    (cli.command \in {"trusted-setup", "commit"} /\ IsErr(cli.exit)) =>
        \A path \in ArtifactPaths :
            fs.files[path].exists => fs.files[path].complete

\* C25: a successful evaluate command has read the SRS and the commitment
\* artifact, and has written an evaluation artifact holding the evaluation
\* and the proof.
C25_EvaluateWritesArtifact ==
    (cli.command = "evaluate" /\ IsOk(cli.exit)) =>
        /\ cli.read = ArtifactPaths
        /\ \E path \in DOMAIN fs.files :
               fs.files[path].complete /\ fs.files[path].holds = "evaluation"

\* C27: from an empty artifacts folder, commit succeeds only after a
\* successful trusted-setup and evaluate only after a successful commit; a
\* commit run before any successful trusted-setup fails and leaves every
\* file as it was.
C27_CliOrdering ==
    /\ []((cli.command = "commit" /\ IsOk(cli.exit)) => "trusted-setup" \in cli.before)
    /\ []((cli.command = "evaluate" /\ IsOk(cli.exit)) => "commit" \in cli.before)
    /\ [][(cli'.command = "commit" /\ "trusted-setup" \notin cli'.before) => (IsErr(cli'.exit) /\ fs' = fs)]_vars

C27_Witness ==
    /\ cli.command = "evaluate"
    /\ IsOk(cli.exit)
    /\ cli.before = {"trusted-setup", "commit"}
    /\ fs.files[SETUP_ARTIFACTS_FOLDER_PATH].exists
    /\ ~fs.files[SETUP_ARTIFACTS_FOLDER_PATH].complete
    /\ fs.files[COMMITMENT_ARTIFACTS_FOLDER_PATH].complete
    /\ fs.files[COMMITMENT_ARTIFACTS_FOLDER_PATH].text[1] = <<1, 1, 1>>

====
